---- MODULE Spec2Model ----
(***************************************************************************)
(* Model of the HTML chunking library: the DOM splitter (traverse_dom,     *)
(* build_full_content, split_html_by_dom) and the fragment merger          *)
(* (get_common_root_path, merge_html_chunk, merge_html_chunks) of both     *)
(* packages of the repository: html_chunking (html_chunking_core.py,       *)
(* html_splitter.py, html_chunking_main.py), called "core" below, and      *)
(* html_chunker (chunker.py, merger.py, utils.py), called "legacy".        *)
(*                                                                         *)
(* A markup string is a sequence of lexemes (opening tag, closing tag,     *)
(* text word, comment); the parser and the serializer of the DOM library   *)
(* are modelled by what they do on such sequences.                         *)
(***************************************************************************)
EXTENDS Integers, Sequences, FiniteSets, TLC

(***************************************************************************)
(* Bounds of the model.                                                    *)
(***************************************************************************)
MaxBudget == 10
MaxBlocks == 2
MaxCalls == 3
MaxFailures == 1

(***************************************************************************)
(* Markup strings.                                                         *)
(***************************************************************************)
ROOT_TAG_NAME == "[document]"

NoAttrs == <<>>

\* An attribute value as it stands in markup: a string, here a sequence of
\* words and blanks.
StrVal(k, ws) == [k |-> k, v |-> ws, list |-> FALSE]

\* An attribute value as the parser keeps a multi-valued attribute: a list.
ListVal(k, ws) == [k |-> k, v |-> ws, list |-> TRUE]

Open(n, a) == [t |-> "open", n |-> n, a |-> a]

Close(n) == [t |-> "close", n |-> n, a |-> NoAttrs]

Text(w) == [t |-> "text", n |-> w, a |-> NoAttrs]

Comment(w) == [t |-> "comment", n |-> w, a |-> NoAttrs]

\* ' '.join(value): the words of a list separated by single blanks.
RECURSIVE Join(_)
Join(ws) ==
    IF Len(ws) <= 1 THEN ws
    ELSE <<Head(ws), " ">> \o Join(Tail(ws))

\* The whitespace split the parser applies to a multi-valued attribute.
RECURSIVE SplitWords(_)
SplitWords(s) ==
    IF s = <<>> THEN <<>>
    ELSE IF Head(s) = " " THEN SplitWords(Tail(s))
    ELSE <<Head(s)>> \o SplitWords(Tail(s))

MultiValued == {"class"}

(***************************************************************************)
(* DOM nodes.  A tag has a name, attributes and contents; a string or a    *)
(* comment has no name (None in the source, "" here).                      *)
(***************************************************************************)
NoName == ""

Tag(n, a, cs) == [kind |-> "tag", name |-> n, attrs |-> a, contents |-> cs, text |-> <<>>]

NavigableString(ws) == [kind |-> "text", name |-> NoName, attrs |-> NoAttrs, contents |-> <<>>, text |-> ws]

CommentNode(w) == [kind |-> "comment", name |-> NoName, attrs |-> NoAttrs, contents |-> <<>>, text |-> <<w>>]

\* Output escaping of a text word and its inverse, entity decoding.
Escape(w) == IF w = "<[document]>" THEN "&lt;[document]&gt;" ELSE w

Unescape(w) == IF w = "&lt;[document]&gt;" THEN "<[document]>" ELSE w

\* The attributes of a tag as its serialization renders them.
RECURSIVE RenderAttrs(_)
RenderAttrs(attrs) ==
    IF attrs = <<>> THEN <<>>
    ELSE <<IF Head(attrs).list THEN StrVal(Head(attrs).k, Join(Head(attrs).v)) ELSE Head(attrs)>>
         \o RenderAttrs(Tail(attrs))

\* The attributes the parser builds from those of an opening tag.
RECURSIVE ParseAttrs(_)
ParseAttrs(a) ==
    IF a = <<>> THEN <<>>
    ELSE <<IF Head(a).k \in MultiValued THEN ListVal(Head(a).k, SplitWords(Head(a).v)) ELSE Head(a)>>
         \o ParseAttrs(Tail(a))

RECURSIVE strText(_)
strText(ws) == IF ws = <<>> THEN <<>> ELSE <<Text(Escape(Head(ws)))>> \o strText(Tail(ws))

RECURSIVE str(_)
RECURSIVE strAll(_)
\* str(node): the serialization of a node; the document object renders its
\* contents only.
str(node) ==
    IF node.kind = "text" THEN strText(node.text)
    ELSE IF node.kind = "comment" THEN <<Comment(node.text[1])>>
    ELSE IF node.name = ROOT_TAG_NAME THEN strAll(node.contents)
    ELSE <<Open(node.name, RenderAttrs(node.attrs))>> \o strAll(node.contents) \o <<Close(node.name)>>

strAll(cs) == IF cs = <<>> THEN <<>> ELSE str(Head(cs)) \o strAll(Tail(cs))

\* Append a child to the innermost open tag of the parser's stack.
PushChild(st, c) ==
    [st EXCEPT ![Len(st)].contents = Append(@, c)]

\* Character data: consecutive runs of text end up in one string node.
PushData(st, w) ==
    LET cs == st[Len(st)].contents IN
    IF cs # <<>> /\ cs[Len(cs)].kind = "text"
    THEN [st EXCEPT ![Len(st)].contents[Len(cs)].text = Append(@, w)]
    ELSE PushChild(st, NavigableString(<<w>>))

\* Close the innermost open tag: it becomes a child of the one below.
PopTag(st) == PushChild(SubSeq(st, 1, Len(st) - 1), st[Len(st)])

RECURSIVE PopDownTo(_, _)
PopDownTo(st, d) == IF Len(st) <= d THEN st ELSE PopDownTo(PopTag(st), d)

\* _popToTag: close every tag down to and including the most recent open
\* tag of that name; an end tag that matches no open tag is ignored, and
\* the document object is never popped.
PopToTag(st, n) ==
    LET ds == {d \in 2..Len(st) : st[d].name = n} IN
    IF ds = {} THEN st
    ELSE PopDownTo(st, (CHOOSE d \in ds : \A e \in ds : e <= d) - 1)

RECURSIVE Feed(_, _, _)
Feed(s, i, st) ==
    IF i > Len(s) THEN PopDownTo(st, 1)[1]
    ELSE LET l == s[i] IN
         IF l.t = "open" /\ l.n = ROOT_TAG_NAME
            THEN Feed(s, i + 1, PushData(st, "<[document]>"))
         ELSE IF l.t = "open"
            THEN Feed(s, i + 1, Append(st, Tag(l.n, ParseAttrs(l.a), <<>>)))
         ELSE IF l.t = "close" /\ l.n = ROOT_TAG_NAME
            THEN Feed(s, i + 1, PushChild(st, CommentNode("[document]")))
         ELSE IF l.t = "close"
            THEN Feed(s, i + 1, PopToTag(st, l.n))
         ELSE IF l.t = "comment"
            THEN Feed(s, i + 1, PushChild(st, CommentNode(l.n)))
         ELSE Feed(s, i + 1, PushData(st, Unescape(l.n)))

\* BeautifulSoup(html_string, 'html.parser'): the document object.
BeautifulSoup(s) == Feed(s, 1, <<Tag(ROOT_TAG_NAME, NoAttrs, <<>>)>>)

(***************************************************************************)
(* Shared primitives.                                                      *)
(***************************************************************************)
\* The tokenizer is an external oracle; here every lexeme costs one token
\* and every attribute of an opening tag one more.
TokenWeight(l) == IF l.t = "open" THEN 1 + Len(l.a) ELSE 1

RECURSIVE count_tokens(_)
count_tokens(text) ==
    IF text = <<>> THEN 0 ELSE TokenWeight(Head(text)) + count_tokens(Tail(text))

\* format_attrs: a list value becomes its items joined by a blank.
RECURSIVE format_attrs(_)
format_attrs(attrs) ==
    IF attrs = <<>> THEN <<>>
    ELSE <<IF Head(attrs).list THEN StrVal(Head(attrs).k, Join(Head(attrs).v)) ELSE Head(attrs)>>
         \o format_attrs(Tail(attrs))

RECURSIVE Reverse(_)
Reverse(q) == IF q = <<>> THEN <<>> ELSE Reverse(Tail(q)) \o <<Head(q)>>

RECURSIVE OpeningTags(_)
OpeningTags(path) ==
    IF path = <<>> THEN <<>>
    ELSE <<Open(Head(path).tag, Head(path).attrs)>> \o OpeningTags(Tail(path))

RECURSIVE ClosingTagsInOrder(_)
ClosingTagsInOrder(path) ==
    IF path = <<>> THEN <<>>
    ELSE <<Close(Head(path).tag)>> \o ClosingTagsInOrder(Tail(path))

\* A plausible slip: the closing tags in path order instead of reversed.
ClosingTagsForward(path) == ClosingTagsInOrder(path)

\* ''.join(["</" + p['tag'] + ">" for p in reversed(path)])
ClosingTags(path) == ClosingTagsInOrder(Reverse(path))

OpenMarker == Open(ROOT_TAG_NAME, NoAttrs)

CloseMarker == Close(ROOT_TAG_NAME)

StripStart(c) == IF c # <<>> /\ Head(c) = OpenMarker THEN Tail(c) ELSE c

StripEnd(c) == IF c # <<>> /\ c[Len(c)] = CloseMarker THEN SubSeq(c, 1, Len(c) - 1) ELSE c

\* html_chunker/chunker.py: the wrapped node, document markers included.
chunker_build_full_content(path, node) ==
    OpeningTags(path) \o str(node) \o ClosingTags(path)

\* html_chunking_core.py: the wrapped node with the document markers
\* removed.  (The strip() calls remove nothing: what is left starts with
\* "<" and ends with ">".)
build_full_content(path, node) ==
    StripEnd(StripStart(OpeningTags(path) \o str(node) \o ClosingTags(path)))

\* A plausible slip: the new chunk is put in front of the list.
chunks_insert_first(list, x) == <<x>> \o list

\* chunks.append(...)
chunks_append(list, x) == Append(list, x)

\* A plausible slip: accept a node whose count equals the budget.
node_fits_or_equal(node_length, k) == node_length <= k

\* traverse_dom: node_length < max_tokens
node_fits(node_length, k) == node_length < k

\* A plausible slip: accept a merge only when it is strictly under the budget.
merge_fits_strict(merged, k) == count_tokens(merged) < k

\* A plausible slip: accept a merge one token over the budget.
merge_fits_plus_one(merged, k) == count_tokens(merged) <= k + 1

\* merge_html_chunks: count_tokens(merged) <= max_tokens
merge_fits(merged, k) == count_tokens(merged) <= k

(***************************************************************************)
(* Trees by position: a position is the sequence of child indexes from     *)
(* the document object down to a node.                                     *)
(***************************************************************************)
RECURSIVE NodeAt(_, _)
NodeAt(node, pos) ==
    IF pos = <<>> THEN node ELSE NodeAt(node.contents[Head(pos)], Tail(pos))

RECURSIVE SetContentsAt(_, _, _)
SetContentsAt(node, pos, cs) ==
    IF pos = <<>> THEN [node EXCEPT !.contents = cs]
    ELSE [node EXCEPT !.contents[Head(pos)] = SetContentsAt(@, Tail(pos), cs)]

IsPrefix(p, q) == Len(p) <= Len(q) /\ SubSeq(q, 1, Len(p)) = p

ElementChildren(node) == {j \in 1..Len(node.contents) : node.contents[j].name # NoName}

(***************************************************************************)
(* Input documents: up to MaxBlocks blocks, bare or inside html and body.  *)
(***************************************************************************)
ClassAB == <<StrVal("class", <<"a", " ", "b">>)>>

Blocks ==
    { <<Open("p", NoAttrs), Text("x"), Close("p")>>,
      <<Open("p", NoAttrs), Text("y"), Open("b", NoAttrs), Text("x"), Close("b"),
        Open("b", NoAttrs), Text("x"), Close("b"), Close("p")>>,
      <<Open("div", ClassAB), Open("p", NoAttrs), Text("x"), Close("p"), Close("div")>> }

RECURSIVE BlockSeqs(_)
BlockSeqs(n) ==
    IF n = 0 THEN {<<>>}
    ELSE LET shorter == BlockSeqs(n - 1) IN
         shorter \cup {s \o b : s \in shorter, b \in Blocks}

InHtmlBody(s) ==
    <<Open("html", NoAttrs), Open("body", NoAttrs)>> \o s \o <<Close("body"), Close("html")>>

Markups == BlockSeqs(MaxBlocks) \cup {InHtmlBody(s) : s \in BlockSeqs(MaxBlocks)}

Impls == {"core", "legacy"}

(***************************************************************************)
(* State.                                                                  *)
(***************************************************************************)
VARIABLES
    impl,           \* the package in use: html_chunking or html_chunker
    html_string,    \* the markup handed to every invocation
    max_tokens,     \* the budget handed to every invocation
    pc,             \* "idle", "split", "split_done", "merge", "done"; "call", "raised"
    calls,          \* invocations started so far
    failures,       \* invocations the tokenizer has made fail so far
    soup,           \* split_html_by_dom: the parsed document
    stack,          \* the activations of traverse_dom, innermost last
    path,           \* core traverse_dom: the list made for this invocation
    default_path,   \* legacy traverse_dom: the list of the default argument
    chunks,         \* split_html_by_dom: the chunks collected so far
    emitted,        \* for each chunk, the position of the node it captures
    visited,        \* positions traverse_dom has counted in this invocation
    html_chunks,    \* merge_html_chunks: its input
    idx,            \* merge_html_chunks: the loop index i (1-based)
    current_chunk,  \* merge_html_chunks: the accumulator
    merged_chunks,  \* merge_html_chunks: the output so far
    from_merge,     \* is the accumulator the result of an accepted merge
    first_result,   \* the return value of the first completed split
    attr_max_len,   \* clean_html: its second argument
    css_texts,      \* clean_html: the texts of the style elements
    css_idx,        \* clean_html: the stylesheet being processed (1-based)
    removed_content,\* clean_html: the texts captured so far
    decomposed,     \* the texts of the elements decompose() was called on
    cleaned,        \* the return value of clean_html
    is_clean_html,  \* HTMLChunker: self.clean_html
    attr_cutoff_len,\* HTMLChunker: self.attr_cutoff_len
    model,          \* HTMLChunker: self.model
    last_removed_content, \* HTMLChunker: self._last_removed_content
    last_cleaning   \* the removed text of the last call that cleaned

vars == <<impl, html_string, max_tokens, pc, calls, failures, soup, stack, path, default_path,
          chunks, emitted, visited, html_chunks, idx, current_chunk, merged_chunks,
          from_merge, first_result, attr_max_len, css_texts, css_idx, removed_content,
          decomposed, cleaned, is_clean_html, attr_cutoff_len, model, last_removed_content,
          last_cleaning>>

args == <<impl, html_string, max_tokens>>

split_vars == <<soup, stack, path, default_path, chunks, emitted, visited>>

merge_vars == <<html_chunks, idx, current_chunk, merged_chunks, from_merge>>

clean_vars == <<attr_max_len, css_texts, css_idx, removed_content, decomposed, cleaned>>

NoCleaned == [set |-> FALSE, cleaned_html |-> <<>>, removed_content_text |-> <<>>]

\* No run of clean_html.
NotCleaning ==
    /\ attr_max_len = 0
    /\ css_texts = <<>>
    /\ css_idx = 0
    /\ removed_content = <<>>
    /\ decomposed = <<>>
    /\ cleaned = NoCleaned

chunker_vars == <<is_clean_html, attr_cutoff_len, model, last_removed_content, last_cleaning>>

\* Optional[str]
None == [none |-> TRUE, text |-> <<>>]

Some(text) == [none |-> FALSE, text |-> text]

\* model: str = "gpt-3.5-turbo"
DEFAULT_MODEL == "gpt-3.5-turbo"

\* No HTMLChunker.
NoChunker ==
    /\ is_clean_html = FALSE
    /\ attr_cutoff_len = 0
    /\ model = DEFAULT_MODEL
    /\ last_removed_content = None
    /\ last_cleaning = None

NoSoup == Tag(ROOT_TAG_NAME, NoAttrs, <<>>)

NoResult == [set |-> FALSE, chunks |-> <<>>]

Init ==
    /\ impl \in Impls
    /\ html_string \in Markups
    /\ max_tokens \in 1..MaxBudget
    /\ pc = "idle"
    /\ calls = 0
    /\ failures = 0
    /\ soup = NoSoup
    /\ stack = <<>>
    /\ path = <<>>
    /\ default_path = <<>>
    /\ chunks = <<>>
    /\ emitted = <<>>
    /\ visited = {}
    /\ html_chunks = <<>>
    /\ idx = 0
    /\ current_chunk = <<>>
    /\ merged_chunks = <<>>
    /\ from_merge = FALSE
    /\ first_result = NoResult
    /\ NotCleaning
    /\ NoChunker

\* The path list the running traversal works on.
CurPath == IF impl = "legacy" THEN default_path ELSE path

SetPath(p) ==
    IF impl = "legacy"
    THEN default_path' = p /\ UNCHANGED path
    ELSE path' = p /\ UNCHANGED default_path

Top == stack[Len(stack)]

TopNode == NodeAt(soup, Top.pos)

(***************************************************************************)
(* split_html_by_dom and traverse_dom.                                     *)
(***************************************************************************)
\* split_html_by_dom: parse, then call traverse_dom on the document with no
\* path argument.  In core the path is a new list; in legacy it is the list
\* of the default argument, whatever it holds.
SplitCall ==
    /\ pc = "idle"
    /\ calls < MaxCalls
    /\ calls' = calls + 1
    /\ pc' = "split"
    /\ soup' = BeautifulSoup(html_string)
    /\ stack' = <<[pos |-> <<>>, i |-> 0]>>
    /\ path' = <<>>
    /\ chunks' = <<>>
    /\ emitted' = <<>>
    /\ visited' = {}
    /\ UNCHANGED <<args, clean_vars, chunker_vars, failures, default_path, merge_vars, first_result>>

\* Return from the innermost activation: the caller pops the path and goes
\* on with its next child; the outermost return ends the traversal.
ReturnFrom(st, p) ==
    IF Len(st) = 1
    THEN /\ stack' = <<>>
         /\ pc' = "split_done"
         /\ SetPath(p)
    ELSE /\ stack' = [SubSeq(st, 1, Len(st) - 1) EXCEPT ![Len(st) - 1].i = @ + 1]
         /\ pc' = pc
         /\ SetPath(SubSeq(p, 1, Len(p) - 1))

\* node_length < max_tokens: the node becomes a chunk and is not descended.
Accept ==
    /\ pc = "split"
    /\ Top.i = 0
    /\ TopNode.name # NoName
    /\ node_fits(count_tokens(str(TopNode)), max_tokens)
    /\ chunks' = chunks_append(chunks,
          [tag |-> TopNode.name,
           attrs |-> TopNode.attrs,
           content |-> IF impl = "legacy"
                       THEN chunker_build_full_content(CurPath, TopNode)
                       ELSE build_full_content(CurPath, TopNode),
           path |-> CurPath])
    /\ emitted' = chunks_append(emitted, Top.pos)
    /\ visited' = visited \cup {Top.pos}
    /\ ReturnFrom(stack, CurPath)
    /\ UNCHANGED <<args, clean_vars, chunker_vars, calls, failures, soup, merge_vars, first_result>>

\* Otherwise the loop over node.children starts.
Reject ==
    /\ pc = "split"
    /\ Top.i = 0
    /\ TopNode.name # NoName
    /\ ~node_fits(count_tokens(str(TopNode)), max_tokens)
    /\ stack' = [stack EXCEPT ![Len(stack)].i = 1]
    /\ visited' = visited \cup {Top.pos}
    /\ UNCHANGED <<args, clean_vars, chunker_vars, pc, calls, failures, soup, path, default_path, chunks, emitted,
                   merge_vars, first_result>>

\* A child with a name: push the node on the path and recurse.
Descend ==
    /\ pc = "split"
    /\ Top.i \in 1..Len(TopNode.contents)
    /\ TopNode.contents[Top.i].name # NoName
    /\ SetPath(Append(CurPath, [tag |-> TopNode.name, attrs |-> format_attrs(TopNode.attrs)]))
    /\ stack' = Append(stack, [pos |-> Append(Top.pos, Top.i), i |-> 0])
    /\ UNCHANGED <<args, clean_vars, chunker_vars, pc, calls, failures, soup, chunks, emitted, visited, merge_vars, first_result>>

\* A child without a name (a string or a comment) is passed over.
SkipChild ==
    /\ pc = "split"
    /\ Top.i \in 1..Len(TopNode.contents)
    /\ TopNode.contents[Top.i].name = NoName
    /\ stack' = [stack EXCEPT ![Len(stack)].i = @ + 1]
    /\ UNCHANGED <<args, clean_vars, chunker_vars, pc, calls, failures, soup, path, default_path, chunks, emitted, visited,
                   merge_vars, first_result>>

\* The children are exhausted: traverse_dom returns.
LoopEnd ==
    /\ pc = "split"
    /\ Top.i > Len(TopNode.contents)
    /\ ReturnFrom(stack, CurPath)
    /\ UNCHANGED <<args, clean_vars, chunker_vars, calls, failures, soup, chunks, emitted, visited, merge_vars, first_result>>

\* count_tokens raises (the tokenizer fails): the exception leaves every
\* activation of traverse_dom without running its path.pop(), and
\* split_html_by_dom returns nothing.
TokenizerFailure ==
    /\ pc = "split"
    /\ Top.i = 0
    /\ failures < MaxFailures
    /\ failures' = failures + 1
    /\ pc' = "idle"
    /\ stack' = <<>>
    /\ soup' = NoSoup
    /\ chunks' = <<>>
    /\ emitted' = <<>>
    /\ visited' = {}
    /\ path' = <<>>
    /\ UNCHANGED <<args, clean_vars, chunker_vars, calls, default_path, merge_vars, first_result>>

(***************************************************************************)
(* get_common_root_path and merge_html_chunk.                              *)
(***************************************************************************)
\* Equality of attribute dictionaries does not depend on the order of keys.
AttrsEq(a, b) == {a[j] : j \in 1..Len(a)} = {b[j] : j \in 1..Len(b)}

\* Equality of nodes as the DOM library defines it: two tags are equal when
\* names, attributes and contents (recursively) are; two strings when their
\* text is.
RECURSIVE NodeEq(_, _)
NodeEq(m, n) ==
    IF m.kind = "tag" /\ n.kind = "tag"
    THEN /\ m.name = n.name
         /\ AttrsEq(m.attrs, n.attrs)
         /\ Len(m.contents) = Len(n.contents)
         /\ \A j \in 1..Len(m.contents) : NodeEq(m.contents[j], n.contents[j])
    ELSE m.kind # "tag" /\ n.kind # "tag" /\ m.text = n.text

\* A plausible slip: the last child with a name instead of the first.
LastElementChild(node) ==
    IF ElementChildren(node) = {} THEN 0
    ELSE CHOOSE j \in ElementChildren(node) : \A e \in ElementChildren(node) : j >= e

\* next((child for child in soup.contents if child.name), None): the index
\* of the first child with a name, 0 for None.
FirstElementChild(node) ==
    IF ElementChildren(node) = {} THEN 0
    ELSE CHOOSE j \in ElementChildren(node) : \A e \in ElementChildren(node) : j <= e

\* The while loop of get_common_root_path, entered with the current nodes at
\* positions p1 and p2 (none1, none2: the variable holds None).
RECURSIVE CommonRootWalk(_, _, _, _, _, _, _, _)
CommonRootWalk(soup1, soup2, p1, p2, none1, none2, path1, path2) ==
    IF none1 \/ none2 THEN <<path1, path2>>
    ELSE LET n1 == NodeAt(soup1, p1)
             n2 == NodeAt(soup2, p2)
         IN IF ~(n1.name = n2.name /\ AttrsEq(n1.attrs, n2.attrs)) THEN <<path1, path2>>
            ELSE IF Len(n1.contents) > 0 /\ Len(n2.contents) > 0
                 THEN CommonRootWalk(soup1, soup2,
                          Append(p1, FirstElementChild(n1)), Append(p2, FirstElementChild(n2)),
                          FirstElementChild(n1) = 0, FirstElementChild(n2) = 0,
                          Append(path1, p1), Append(path2, p2))
                 ELSE <<Append(path1, p1), Append(path2, p2)>>

\* The two lists of nodes, each node given by its position in its tree.
get_common_root_path(soup1, soup2) ==
    CommonRootWalk(soup1, soup2, <<>>, <<>>, FALSE, FALSE, <<>>, <<>>)

RemoveAt(q, j) == SubSeq(q, 1, j - 1) \o SubSeq(q, j + 1, Len(q))

\* for element in common_parent2.contents:
\*     if element not in common_parent1.contents: common_parent1.append(element)
\* append() moves the element: it leaves common_parent2.contents, the list
\* the loop is iterating over, while the loop index goes on by one.
RECURSIVE AppendUnique(_, _, _)
AppendUnique(contents1, contents2, j) ==
    IF j > Len(contents2) THEN contents1
    ELSE IF \E m \in 1..Len(contents1) : NodeEq(contents1[m], contents2[j])
         THEN AppendUnique(contents1, contents2, j + 1)
         ELSE AppendUnique(Append(contents1, contents2[j]), RemoveAt(contents2, j), j + 1)

\* The first tree after the loop of merge_html_chunk.
MergedSoup(soup1, soup2) ==
    LET paths == get_common_root_path(soup1, soup2)
        common_parent1 == IF paths[1] # <<>> THEN paths[1][Len(paths[1])] ELSE <<>>
        common_parent2 == IF paths[2] # <<>> THEN paths[2][Len(paths[2])] ELSE <<>>
    IN SetContentsAt(soup1, common_parent1,
           AppendUnique(NodeAt(soup1, common_parent1).contents,
                        NodeAt(soup2, common_parent2).contents, 1))

merge_html_chunk(html_1, html_2) ==
    str(MergedSoup(BeautifulSoup(html_1), BeautifulSoup(html_2)))

\* A plausible slip: the first chunk goes through the parser and back.
first_chunk_reparsed(list) == str(BeautifulSoup(list[1]))

\* current_chunk = html_chunks[0]
first_chunk(list) == list[1]

RECURSIVE Contents(_)
\* [chunk['content'] for chunk in chunks]
Contents(cs) == IF cs = <<>> THEN <<>> ELSE <<Head(cs).content>> \o Contents(Tail(cs))

(***************************************************************************)
(* The callers of the splitter and merge_html_chunks.                      *)
(***************************************************************************)
Record == IF first_result.set THEN first_result ELSE [set |-> TRUE, chunks |-> chunks]

\* split_html_by_dom used on its own: the chunks are returned.
SplitReturn ==
    /\ pc = "split_done"
    /\ pc' = "idle"
    /\ first_result' = Record
    /\ soup' = NoSoup
    /\ chunks' = <<>>
    /\ emitted' = <<>>
    /\ visited' = {}
    /\ path' = <<>>
    /\ UNCHANGED <<args, clean_vars, chunker_vars, calls, failures, stack, default_path, merge_vars>>

\* get_html_chunks (core) or the applications (legacy): the contents of the
\* chunks go to merge_html_chunks, which starts with the first of them.
MergeCall ==
    /\ pc = "split_done"
    /\ chunks # <<>>
    /\ pc' = "merge"
    /\ first_result' = Record
    /\ html_chunks' = Contents(chunks)
    /\ merged_chunks' = <<>>
    /\ current_chunk' = first_chunk(Contents(chunks))
    /\ from_merge' = FALSE
    /\ idx' = 2
    /\ UNCHANGED <<args, clean_vars, chunker_vars, calls, failures, split_vars>>

\* core merge_html_chunks: if not html_chunks: return []
MergeEmpty ==
    /\ pc = "split_done"
    /\ chunks = <<>>
    /\ impl = "core"
    /\ pc' = "done"
    /\ first_result' = Record
    /\ html_chunks' = <<>>
    /\ merged_chunks' = <<>>
    /\ current_chunk' = <<>>
    /\ from_merge' = FALSE
    /\ idx' = 0
    /\ UNCHANGED <<args, clean_vars, chunker_vars, calls, failures, split_vars>>

\* legacy merge_html_chunks has no such test: html_chunks[0] raises
\* IndexError on an empty list.
MergeIndexError ==
    /\ pc = "split_done"
    /\ chunks = <<>>
    /\ impl = "legacy"
    /\ pc' = "idle"
    /\ first_result' = Record
    /\ soup' = NoSoup
    /\ chunks' = <<>>
    /\ emitted' = <<>>
    /\ visited' = {}
    /\ path' = <<>>
    /\ UNCHANGED <<args, clean_vars, chunker_vars, calls, failures, stack, default_path, merge_vars>>

\* One iteration of the loop, the merged chunk within the budget.
MergeAccept ==
    /\ pc = "merge"
    /\ idx <= Len(html_chunks)
    /\ LET merged == merge_html_chunk(current_chunk, html_chunks[idx]) IN
         /\ merge_fits(merged, max_tokens)
         /\ current_chunk' = merged
    /\ from_merge' = TRUE
    /\ idx' = idx + 1
    /\ UNCHANGED <<args, clean_vars, chunker_vars, pc, calls, failures, split_vars, html_chunks, merged_chunks, first_result>>

\* One iteration of the loop, the merged chunk over the budget.
MergeReject ==
    /\ pc = "merge"
    /\ idx <= Len(html_chunks)
    /\ ~merge_fits(merge_html_chunk(current_chunk, html_chunks[idx]), max_tokens)
    /\ merged_chunks' = Append(merged_chunks, current_chunk)
    /\ current_chunk' = html_chunks[idx]
    /\ from_merge' = FALSE
    /\ idx' = idx + 1
    /\ UNCHANGED <<args, clean_vars, chunker_vars, pc, calls, failures, split_vars, html_chunks, first_result>>

\* After the loop: the accumulator is appended and the list returned.
MergeEnd ==
    /\ pc = "merge"
    /\ idx > Len(html_chunks)
    /\ merged_chunks' = Append(merged_chunks, current_chunk)
    /\ pc' = "done"
    /\ UNCHANGED <<args, clean_vars, chunker_vars, calls, failures, split_vars, html_chunks, idx, current_chunk, from_merge,
                   first_result>>

\* The caller takes the merged chunks; the invocation is over.
Return ==
    /\ pc = "done"
    /\ pc' = "idle"
    /\ soup' = NoSoup
    /\ chunks' = <<>>
    /\ emitted' = <<>>
    /\ visited' = {}
    /\ path' = <<>>
    /\ html_chunks' = <<>>
    /\ idx' = 0
    /\ current_chunk' = <<>>
    /\ merged_chunks' = <<>>
    /\ from_merge' = FALSE
    /\ UNCHANGED <<args, clean_vars, chunker_vars, calls, failures, stack, default_path, first_result>>

Next ==
    \/ SplitCall
    \/ Accept
    \/ Reject
    \/ Descend
    \/ SkipChild
    \/ LoopEnd
    \/ TokenizerFailure
    \/ SplitReturn
    \/ MergeCall
    \/ MergeEmpty
    \/ MergeIndexError
    \/ MergeAccept
    \/ MergeReject
    \/ MergeEnd
    \/ Return

Spec == Init /\ [][Next]_vars

(***************************************************************************)
(* merge_html_chunks called on its own, on any list of markup strings.     *)
(***************************************************************************)
MaxFragments == 3

\* The last one has two end tags that match no open tag.
Fragments ==
    { <<Open("p", NoAttrs), Text("x"), Close("p")>>,
      <<Open("p", NoAttrs), Text("y"), Close("p")>>,
      <<Open("div", ClassAB), Open("p", NoAttrs), Text("x"), Close("p"), Close("div")>>,
      <<Open("html", NoAttrs), Open("body", NoAttrs), Open("p", NoAttrs), Text("z"), Close("p"),
        Close("body"), Close("html")>>,
      <<Open("p", NoAttrs), Text("x"), Close("p"), Close("b"), Close("b")>>,
      <<Open("p", NoAttrs), Open("b", NoAttrs), Text("y"), Close("b"),
        Open("b", NoAttrs), Text("z"), Close("b"), Close("p")>> }

RECURSIVE FragmentLists(_)
FragmentLists(n) ==
    IF n = 0 THEN {<<>>}
    ELSE LET shorter == FragmentLists(n - 1) IN
         shorter \cup {Append(l, f) : l \in shorter, f \in Fragments}

InitMerge ==
    /\ impl \in Impls
    /\ html_string = <<>>
    /\ max_tokens \in 1..MaxBudget
    /\ pc = "call"
    /\ calls = 0
    /\ failures = 0
    /\ soup = NoSoup
    /\ stack = <<>>
    /\ path = <<>>
    /\ default_path = <<>>
    /\ chunks = <<>>
    /\ emitted = <<>>
    /\ visited = {}
    /\ html_chunks \in FragmentLists(MaxFragments)
    /\ idx = 0
    /\ current_chunk = <<>>
    /\ merged_chunks = <<>>
    /\ from_merge = FALSE
    /\ first_result = NoResult
    /\ NotCleaning
    /\ NoChunker

\* merge_html_chunks on a list that is not empty.
MergeDirect ==
    /\ pc = "call"
    /\ html_chunks # <<>>
    /\ pc' = "merge"
    /\ merged_chunks' = <<>>
    /\ current_chunk' = first_chunk(html_chunks)
    /\ from_merge' = FALSE
    /\ idx' = 2
    /\ UNCHANGED <<args, clean_vars, chunker_vars, calls, failures, split_vars, html_chunks, first_result>>

\* core merge_html_chunks on the empty list: return []
MergeDirectEmpty ==
    /\ pc = "call"
    /\ html_chunks = <<>>
    /\ impl = "core"
    /\ pc' = "done"
    /\ merged_chunks' = <<>>
    /\ UNCHANGED <<args, clean_vars, chunker_vars, calls, failures, split_vars, html_chunks, idx, current_chunk,
                   from_merge, first_result>>

\* legacy merge_html_chunks on the empty list: html_chunks[0] raises
\* IndexError.
MergeDirectIndexError ==
    /\ pc = "call"
    /\ html_chunks = <<>>
    /\ impl = "legacy"
    /\ pc' = "raised"
    /\ UNCHANGED <<args, clean_vars, chunker_vars, calls, failures, split_vars, merge_vars, first_result>>

NextMerge ==
    \/ MergeDirect
    \/ MergeDirectEmpty
    \/ MergeDirectIndexError
    \/ MergeAccept
    \/ MergeReject
    \/ MergeEnd

SpecMerge == InitMerge /\ [][NextMerge]_vars

(***************************************************************************)
(* The cleaner: clean_html of html_cleaner.py (core) and of                *)
(* html_chunker/cleaner.py (legacy).  An attribute value is a sequence of  *)
(* pieces: single characters in the attributes that can be truncated,      *)
(* declarations and blanks in a style.  A text is the sequence of its      *)
(* words.                                                                  *)
(***************************************************************************)
MaxSheets == 2
MaxElements == 2
MaxAttrLen == 2

\* element.get_text(): the strings below a node, in document order; a
\* comment is no text.
RECURSIVE get_text(_)
RECURSIVE get_text_all(_)
get_text(node) ==
    IF node.kind = "text" THEN node.text
    ELSE IF node.kind = "comment" THEN <<>>
    ELSE get_text_all(node.contents)

get_text_all(cs) == IF cs = <<>> THEN <<>> ELSE get_text(Head(cs)) \o get_text_all(Tail(cs))

\* needle in value
HasSub(value, needle) ==
    \E i \in 1..(Len(value) - Len(needle) + 1) : SubSeq(value, i, i + Len(needle) - 1) = needle

\* The substrings of an inline style that make an element hidden.
inline_hidden_styles(package) ==
    IF package = "core"
    THEN { <<"display:none">>, <<"display:", " ", "none">>,
           <<"visibility:hidden">>, <<"visibility:", " ", "hidden">> }
    ELSE { <<"display:none">>, <<"visibility:hidden">> }

\* What find_all and select look for.
ByName(n) == [by |-> "name", name |-> n, k |-> "", v |-> <<>>, needles |-> {}]

ByAttr(k, v) == [by |-> "attr", name |-> "", k |-> k, v |-> v, needles |-> {}]

ByStyle(needles) == [by |-> "style", name |-> "", k |-> "style", v |-> <<>>, needles |-> needles]

Matches(rule, node) ==
    /\ node.kind = "tag"
    /\ IF rule.by = "name" THEN node.name = rule.name
       ELSE \E j \in 1..Len(node.attrs) :
               /\ node.attrs[j].k = rule.k
               /\ IF rule.by = "attr" THEN node.attrs[j].v = rule.v
                  ELSE \E needle \in rule.needles : HasSub(node.attrs[j].v, needle)

\* find_all, then get_text of every element found: the texts in document
\* order.  (No input nests two elements of one rule.)
RECURSIVE found_texts(_, _)
found_texts(cs, rule) ==
    IF cs = <<>> THEN <<>>
    ELSE (IF Matches(rule, Head(cs)) THEN <<get_text(Head(cs))>>
          ELSE IF Head(cs).kind = "tag" THEN found_texts(Head(cs).contents, rule)
          ELSE <<>>)
         \o found_texts(Tail(cs), rule)

\* find_all, then decompose of every element found: what is left.
RECURSIVE decompose_all(_, _)
decompose_all(cs, rule) ==
    IF cs = <<>> THEN <<>>
    ELSE (IF Matches(rule, Head(cs)) THEN <<>>
          ELSE IF Head(cs).kind = "tag"
               THEN <<[Head(cs) EXCEPT !.contents = decompose_all(@, rule)]>>
          ELSE <<Head(cs)>>)
         \o decompose_all(Tail(cs), rule)

\* The state of a run of clean_html: the document, the texts captured, and
\* the texts of all the elements decomposed.
CleanState(s, captured, gone) == [soup |-> s, removed_content |-> captured, decomposed |-> gone]

\* for element in <found>: removed_content.append(element.get_text());
\* element.decompose()
remove_captured(st, rule) ==
    CleanState([st.soup EXCEPT !.contents = decompose_all(@, rule)],
               st.removed_content \o found_texts(st.soup.contents, rule),
               st.decomposed \o found_texts(st.soup.contents, rule))

\* for elem in <found>: elem.decompose()
remove_silently(st, rule) ==
    CleanState([st.soup EXCEPT !.contents = decompose_all(@, rule)],
               st.removed_content,
               st.decomposed \o found_texts(st.soup.contents, rule))

\* A plausible slip: only script elements are removed.
removed_tags_script_only == <<"script">>

\* for tag in ['script', 'style']
removed_tags == <<"script", "style">>

RECURSIVE remove_tags(_, _)
remove_tags(st, tags) ==
    IF tags = <<>> THEN st
    ELSE remove_tags(remove_captured(st, ByName(Head(tags))), Tail(tags))

\* Stylesheets.  A rule has a type, a selector and declarations.
STYLE_RULE == "STYLE_RULE"

COMMENT_RULE == "COMMENT"

NoStyle == [display |-> "", visibility |-> ""]

CssRule(type, selector, style) == [type |-> type, selectorText |-> selector, style |-> style]

\* The texts of the style elements of the inputs.
Sheets ==
    { "/*c*/span{display:none}",
      "em{visibility:hidden}",
      "p::after{display:none}p{color:red}",
      "span{display:none}p:-x{display:none}em{display:none}" }

\* cssutils.parseString(css_text): the rules of a sheet.
parseString(css_text) ==
    IF css_text = <<"/*c*/span{display:none}">>
    THEN <<CssRule(COMMENT_RULE, "", NoStyle),
           CssRule(STYLE_RULE, "span", [NoStyle EXCEPT !.display = "none"])>>
    ELSE IF css_text = <<"em{visibility:hidden}">>
    THEN <<CssRule(STYLE_RULE, "em", [NoStyle EXCEPT !.visibility = "hidden"])>>
    ELSE IF css_text = <<"p::after{display:none}p{color:red}">>
    THEN <<CssRule(STYLE_RULE, "p::after", [NoStyle EXCEPT !.display = "none"]),
           CssRule(STYLE_RULE, "p", NoStyle)>>
    ELSE IF css_text = <<"span{display:none}p:-x{display:none}em{display:none}">>
    THEN <<CssRule(STYLE_RULE, "span", [NoStyle EXCEPT !.display = "none"]),
           CssRule(STYLE_RULE, "p:-x", [NoStyle EXCEPT !.display = "none"]),
           CssRule(STYLE_RULE, "em", [NoStyle EXCEPT !.display = "none"])>>
    ELSE <<>>

\* '::' in selector or ':after' in selector or ':before' in selector
IsPseudoElement(selector) == selector \in {"p::after"}

\* soup.select(selector) raises on a selector it cannot match.
SelectRaises(selector) == selector \in {"p:-x"}

\* 'display' in rule.style and 'none' in rule.style['display'], or the same
\* for visibility and hidden.
Hides(rule) == rule.style.display = "none" \/ rule.style.visibility = "hidden"

\* for rule in sheet: ... from rule number i on; raised tells that select
\* raised, after which no rule of the sheet is looked at.
RECURSIVE apply_rules(_, _, _)
apply_rules(st, rules, i) ==
    IF i > Len(rules) THEN [st |-> st, raised |-> FALSE]
    ELSE IF rules[i].type # STYLE_RULE \/ IsPseudoElement(rules[i].selectorText)
            \/ ~Hides(rules[i])
         THEN apply_rules(st, rules, i + 1)
    ELSE IF SelectRaises(rules[i].selectorText) THEN [st |-> st, raised |-> TRUE]
    ELSE apply_rules(remove_captured(st, ByName(rules[i].selectorText)), rules, i + 1)

attr_to_truncate == {"href", "src", "d", "url", "data-url", "data-src", "data-src-hq"}

Ellipsis == <<".", ".", ".">>

\* A plausible slip: a value of exactly the maximal length is cut too.
truncate_at_limit(value, n) ==
    IF n # 0 /\ Len(value) >= n THEN SubSeq(value, 1, n) \o Ellipsis ELSE value

\* if attr_max_len and len(tag[attr]) > attr_max_len:
\*     tag[attr] = tag[attr][:attr_max_len] + "..."
truncate(value, n) ==
    IF n # 0 /\ Len(value) > n THEN SubSeq(value, 1, n) \o Ellipsis ELSE value

RECURSIVE truncate_attrs(_, _)
truncate_attrs(attrs, n) ==
    IF attrs = <<>> THEN <<>>
    ELSE <<IF Head(attrs).k \in attr_to_truncate
           THEN [Head(attrs) EXCEPT !.v = truncate(@, n)]
           ELSE Head(attrs)>>
         \o truncate_attrs(Tail(attrs), n)

\* for attr in attr_to_truncate: for tag in soup.find_all(attrs={attr: True})
RECURSIVE truncate_all(_, _)
truncate_all(cs, n) ==
    IF cs = <<>> THEN <<>>
    ELSE <<IF Head(cs).kind = "tag"
           THEN [Head(cs) EXCEPT !.attrs = truncate_attrs(@, n),
                                 !.contents = truncate_all(@, n)]
           ELSE Head(cs)>>
         \o truncate_all(Tail(cs), n)

\* "\n".join(removed_content)
RECURSIVE JoinLines(_)
JoinLines(texts) ==
    IF texts = <<>> THEN <<>>
    ELSE IF Len(texts) = 1 THEN texts[1]
    ELSE texts[1] \o <<"\n">> \o JoinLines(Tail(texts))

\* Input documents of the cleaner: a head with up to MaxSheets style
\* elements and a script, and a body with up to MaxElements elements.
OneAttr(k, v) == <<StrVal(k, v)>>

Elements ==
    { <<Open("p", NoAttrs), Text("x"), Close("p")>>,
      <<Open("span", NoAttrs), Text("h"), Close("span")>>,
      <<Open("em", NoAttrs), Text("v"), Close("em")>>,
      <<Open("div", OneAttr("style", <<"display:none">>)), Text("i"), Close("div")>>,
      <<Open("div", OneAttr("style", <<"color:red;", " ", "display:", " ", "none">>)), Text("j"),
        Close("div")>>,
      <<Open("i", OneAttr("aria-hidden", <<"true">>)), Open("u", NoAttrs), Text("a"),
        Close("u"), Close("i")>>,
      <<Open("b", OneAttr("tabindex", <<"-1">>)), Text("t"), Close("b")>>,
      <<Open("a", <<StrVal("href", <<"a", "b">>), StrVal("data-src", <<"c">>),
                    StrVal("title", <<"d", "e", "f">>)>>),
        Text("l"), Close("a")>> }

RECURSIVE ElementSeqs(_)
ElementSeqs(n) ==
    IF n = 0 THEN {<<>>}
    ELSE LET shorter == ElementSeqs(n - 1) IN
         shorter \cup {s \o e : s \in shorter, e \in Elements}

RECURSIVE SheetSeqs(_)
SheetSeqs(n) ==
    IF n = 0 THEN {<<>>}
    ELSE LET shorter == SheetSeqs(n - 1) IN
         shorter \cup {s \o <<Open("style", NoAttrs), Text(w), Close("style")>> :
                          s \in shorter, w \in Sheets}

Page(sheets, elements) ==
    <<Open("html", NoAttrs), Open("head", NoAttrs)>> \o sheets
    \o <<Open("script", NoAttrs), Text("s"), Close("script"), Close("head"), Open("body", NoAttrs)>>
    \o elements \o <<Close("body"), Close("html")>>

Pages == {Page(s, e) : s \in SheetSeqs(MaxSheets), e \in ElementSeqs(MaxElements)}

InitClean ==
    /\ impl \in Impls
    /\ html_string \in Pages
    /\ max_tokens = 1
    /\ pc = "clean_call"
    /\ calls = 0
    /\ failures = 0
    /\ soup = NoSoup
    /\ stack = <<>>
    /\ path = <<>>
    /\ default_path = <<>>
    /\ chunks = <<>>
    /\ emitted = <<>>
    /\ visited = {}
    /\ html_chunks = <<>>
    /\ idx = 0
    /\ current_chunk = <<>>
    /\ merged_chunks = <<>>
    /\ from_merge = FALSE
    /\ first_result = NoResult
    /\ attr_max_len \in 0..MaxAttrLen
    /\ css_texts = <<>>
    /\ css_idx = 0
    /\ removed_content = <<>>
    /\ decomposed = <<>>
    /\ cleaned = NoCleaned
    /\ NoChunker

rest_vars == <<max_tokens, calls, failures, stack, path, default_path, chunks, emitted, visited,
               merge_vars, first_result, chunker_vars>>

Here == CleanState(soup, removed_content, decomposed)

Goto(st) ==
    /\ soup' = st.soup
    /\ removed_content' = st.removed_content
    /\ decomposed' = st.decomposed

\* soup = BeautifulSoup(html, "lxml"); removed_content = [];
\* css_texts = [style.get_text() for style in soup.find_all('style')]
\* (on a complete document the tree is the one of html.parser)
CleanCall ==
    /\ pc = "clean_call"
    /\ pc' = "css"
    /\ soup' = BeautifulSoup(html_string)
    /\ removed_content' = <<>>
    /\ decomposed' = <<>>
    /\ css_texts' = found_texts(BeautifulSoup(html_string).contents, ByName("style"))
    /\ css_idx' = 1
    /\ UNCHANGED <<impl, html_string, attr_max_len, cleaned, rest_vars>>

\* One stylesheet all of whose rules are processed.
CleanStylesheet ==
    /\ pc = "css"
    /\ css_idx <= Len(css_texts)
    /\ LET r == apply_rules(Here, parseString(css_texts[css_idx]), 1) IN
       /\ ~r.raised
       /\ Goto(r.st)
    /\ css_idx' = css_idx + 1
    /\ UNCHANGED <<impl, html_string, pc, attr_max_len, css_texts, cleaned, rest_vars>>

\* core: a stylesheet whose processing raises; except Exception: continue
CleanStylesheetSkipped ==
    /\ pc = "css"
    /\ css_idx <= Len(css_texts)
    /\ impl = "core"
    /\ LET r == apply_rules(Here, parseString(css_texts[css_idx]), 1) IN
       /\ r.raised
       /\ Goto(r.st)
    /\ css_idx' = css_idx + 1
    /\ UNCHANGED <<impl, html_string, pc, attr_max_len, css_texts, cleaned, rest_vars>>

\* legacy: a stylesheet whose processing raises; nothing catches the
\* exception, which leaves clean_html.
CleanStylesheetRaises ==
    /\ pc = "css"
    /\ css_idx <= Len(css_texts)
    /\ impl = "legacy"
    /\ LET r == apply_rules(Here, parseString(css_texts[css_idx]), 1) IN
       /\ r.raised
       /\ Goto(r.st)
    /\ pc' = "raised"
    /\ UNCHANGED <<impl, html_string, attr_max_len, css_texts, css_idx, cleaned, rest_vars>>

\* After the last stylesheet: the script and style elements.
CleanScriptStyle ==
    /\ pc = "css"
    /\ css_idx > Len(css_texts)
    /\ pc' = "inline_style"
    /\ Goto(remove_tags(Here, removed_tags))
    /\ UNCHANGED <<impl, html_string, attr_max_len, css_texts, css_idx, cleaned, rest_vars>>

\* The elements hidden by their inline style.
CleanInlineStyle ==
    /\ pc = "inline_style"
    /\ pc' = "truncate"
    /\ Goto(remove_silently(Here, ByStyle(inline_hidden_styles(impl))))
    /\ UNCHANGED <<impl, html_string, attr_max_len, css_texts, css_idx, cleaned, rest_vars>>

\* The long attributes.
CleanTruncate ==
    /\ pc = "truncate"
    /\ pc' = "aria_hidden"
    /\ soup' = [soup EXCEPT !.contents = truncate_all(@, attr_max_len)]
    /\ UNCHANGED <<impl, html_string, attr_max_len, css_texts, css_idx, removed_content,
                   decomposed, cleaned, rest_vars>>

\* The elements with aria-hidden="true".
CleanAriaHidden ==
    /\ pc = "aria_hidden"
    /\ pc' = "tabindex"
    /\ Goto(remove_captured(Here, ByAttr("aria-hidden", <<"true">>)))
    /\ UNCHANGED <<impl, html_string, attr_max_len, css_texts, css_idx, cleaned, rest_vars>>

\* The elements with tabindex="-1".
CleanTabindex ==
    /\ pc = "tabindex"
    /\ pc' = "clean_return"
    /\ Goto(remove_captured(Here, ByAttr("tabindex", <<"-1">>)))
    /\ UNCHANGED <<impl, html_string, attr_max_len, css_texts, css_idx, cleaned, rest_vars>>

\* return cleaned_html, removed_content_text
CleanReturn ==
    /\ pc = "clean_return"
    /\ pc' = "returned"
    /\ cleaned' = [set |-> TRUE, cleaned_html |-> str(soup),
                   removed_content_text |-> JoinLines(removed_content)]
    /\ UNCHANGED <<impl, html_string, attr_max_len, css_texts, css_idx, soup, removed_content,
                   decomposed, rest_vars>>

NextClean ==
    \/ CleanCall
    \/ CleanStylesheet
    \/ CleanStylesheetSkipped
    \/ CleanStylesheetRaises
    \/ CleanScriptStyle
    \/ CleanInlineStyle
    \/ CleanTruncate
    \/ CleanAriaHidden
    \/ CleanTabindex
    \/ CleanReturn

SpecClean == InitClean /\ [][NextClean]_vars

(***************************************************************************)
(* The class HTMLChunker of html_chunking_main.py (core).                  *)
(***************************************************************************)
\* The tokenizer models, and the count of each: encoding_for_model(model)
\* gives another encoding for another model; here the other encoding takes
\* two tokens for a text word.
Models == {DEFAULT_MODEL, "gpt2"}

ModelWeight(l, m) ==
    IF m = DEFAULT_MODEL THEN TokenWeight(l)
    ELSE IF l.t = "text" THEN 2 ELSE TokenWeight(l)

\* count_tokens(text, model)
RECURSIVE count_tokens_model(_, _)
count_tokens_model(text, m) ==
    IF text = <<>> THEN 0 ELSE ModelWeight(Head(text), m) + count_tokens_model(Tail(text), m)

\* The stylesheets of clean_html in html_cleaner.py, from number i on: one
\* that raises is left where it raised, and the next one is taken.
RECURSIVE apply_sheets(_, _, _)
apply_sheets(st, texts, i) ==
    IF i > Len(texts) THEN st
    ELSE apply_sheets(apply_rules(st, parseString(texts[i]), 1).st, texts, i + 1)

\* clean_html(html, attr_max_len) of html_cleaner.py, from call to return.
clean_html(html, n) ==
    LET parsed == BeautifulSoup(html)
        texts == found_texts(parsed.contents, ByName("style"))
        sheets == apply_sheets(CleanState(parsed, <<>>, <<>>), texts, 1)
        tags == remove_tags(sheets, removed_tags)
        inline == remove_silently(tags, ByStyle(inline_hidden_styles("core")))
        cut == [inline EXCEPT !.soup.contents = truncate_all(@, n)]
        aria == remove_captured(cut, ByAttr("aria-hidden", <<"true">>))
        tabindex == remove_captured(aria, ByAttr("tabindex", <<"-1">>))
    IN  [cleaned_html |-> str(tabindex.soup),
         removed_content_text |-> JoinLines(tabindex.removed_content)]

\* The documents handed to a chunker.
ChunkerPages ==
    { Page(<<>>, <<Text("w"), Open("p", NoAttrs), Text("x"), Close("p")>>),
      Page(<<Open("style", NoAttrs), Text("em{visibility:hidden}"), Close("style")>>,
           <<Open("em", NoAttrs), Text("v"), Close("em"),
             Open("p", NoAttrs), Text("x"), Close("p")>>),
      Page(<<>>, <<Open("b", OneAttr("tabindex", <<"-1">>)), Text("t"), Close("b"),
                   Open("a", <<StrVal("href", <<"a", "b">>)>>), Text("l"), Close("a")>>) }

\* HTMLChunker(max_tokens, clean_html, attr_cutoff_len, model)
InitChunker ==
    /\ impl = "core"
    /\ html_string = <<>>
    /\ max_tokens \in {MaxBudget \div 2, MaxBudget}
    /\ pc = "idle"
    /\ calls = 0
    /\ failures = 0
    /\ soup = NoSoup
    /\ stack = <<>>
    /\ path = <<>>
    /\ default_path = <<>>
    /\ chunks = <<>>
    /\ emitted = <<>>
    /\ visited = {}
    /\ html_chunks = <<>>
    /\ idx = 0
    /\ current_chunk = <<>>
    /\ merged_chunks = <<>>
    /\ from_merge = FALSE
    /\ first_result = NoResult
    /\ NotCleaning
    /\ is_clean_html \in BOOLEAN
    /\ attr_cutoff_len \in {0, MaxAttrLen - 1}
    /\ model \in Models
    /\ last_removed_content = None
    /\ last_cleaning = None

\* split_html_by_dom(html, max_tokens) up to its call of traverse_dom.
StartSplit(html) ==
    /\ pc' = "split"
    /\ soup' = BeautifulSoup(html)
    /\ stack' = <<[pos |-> <<>>, i |-> 0]>>
    /\ path' = <<>>
    /\ chunks' = <<>>
    /\ emitted' = <<>>
    /\ visited' = {}

\* chunk(html): get_html_chunks cleans if the chunker is set to, and goes
\* on to split; the removed text is dropped (html, _ = clean_html(...)).
Chunk ==
    /\ pc = "idle"
    /\ calls < MaxCalls
    /\ calls' = calls + 1
    /\ \E html \in ChunkerPages :
          /\ html_string' = html
          /\ IF is_clean_html
             THEN /\ StartSplit(clean_html(html, attr_cutoff_len).cleaned_html)
                  /\ last_cleaning' = Some(clean_html(html, attr_cutoff_len).removed_content_text)
             ELSE /\ StartSplit(html)
                  /\ last_cleaning' = last_cleaning
    /\ UNCHANGED <<impl, max_tokens, failures, default_path, merge_vars, first_result, clean_vars,
                   is_clean_html, attr_cutoff_len, model, last_removed_content>>

\* chunk_with_metadata(html): the removed text is kept in
\* self._last_removed_content when the chunker is set to clean.
ChunkWithMetadata ==
    /\ pc = "idle"
    /\ calls < MaxCalls
    /\ calls' = calls + 1
    /\ \E html \in ChunkerPages :
          /\ html_string' = html
          /\ IF is_clean_html
             THEN /\ StartSplit(clean_html(html, attr_cutoff_len).cleaned_html)
                  /\ last_removed_content' =
                        Some(clean_html(html, attr_cutoff_len).removed_content_text)
                  /\ last_cleaning' = Some(clean_html(html, attr_cutoff_len).removed_content_text)
             ELSE /\ StartSplit(html)
                  /\ UNCHANGED <<last_removed_content, last_cleaning>>
    /\ UNCHANGED <<impl, max_tokens, failures, default_path, merge_vars, first_result, clean_vars,
                   is_clean_html, attr_cutoff_len, model>>

\* chunk_with_metadata(html) when its import of the cleaner raises: the
\* call ends before anything else is done.
ChunkWithMetadataImportError ==
    /\ pc = "idle"
    /\ calls < MaxCalls
    /\ calls' = calls + 1
    /\ UNCHANGED <<args, pc, failures, split_vars, merge_vars, first_result, clean_vars,
                   chunker_vars>>

\* get_last_removed_content()
get_last_removed_content == last_removed_content

NextChunker ==
    \/ Chunk
    \/ ChunkWithMetadata
    \/ ChunkWithMetadataImportError
    \/ Accept
    \/ Reject
    \/ Descend
    \/ SkipChild
    \/ LoopEnd
    \/ MergeCall
    \/ MergeAccept
    \/ MergeReject
    \/ MergeEnd
    \/ Return

SpecChunker == InitChunker /\ [][NextChunker]_vars

(***************************************************************************)
(* Vocabulary of the properties.                                           *)
(***************************************************************************)
RECURSIVE Positions(_)
Positions(node) ==
    {<<>>} \cup UNION {{<<j>> \o q : q \in Positions(node.contents[j])} : j \in 1..Len(node.contents)}

Length(pos) == count_tokens(str(NodeAt(soup, pos)))

IsElement(pos) == NodeAt(soup, pos).name # NoName

\* An element with no element children.
IsChildless(pos) == IsElement(pos) /\ ElementChildren(NodeAt(soup, pos)) = {}

IsTextLeaf(pos) == NodeAt(soup, pos).kind = "text"

ChunkIndexes == 1..Len(chunks)

EmittedFor(pos) == {j \in ChunkIndexes : emitted[j] = pos}

Covered(pos) == \E j \in ChunkIndexes : IsPrefix(emitted[j], pos)

RECURSIVE WordCount(_, _)
\* Occurrences of a text word in a markup string.
WordCount(text, w) ==
    IF text = <<>> THEN 0
    ELSE (IF Head(text) = Text(w) THEN 1 ELSE 0) + WordCount(Tail(text), w)

RECURSIVE WordCountAll(_, _)
WordCountAll(texts, w) ==
    IF texts = <<>> THEN 0 ELSE WordCount(Head(texts), w) + WordCountAll(Tail(texts), w)

Words == {"x", "y", "z"}

\* c is s wrapped by one opening tag per entry of p, in order, and one
\* closing tag per entry of p, in reverse order.
Wrapped(c, p, s) ==
    /\ Len(c) = Len(s) + 2 * Len(p)
    /\ \A m \in 1..Len(p) :
          /\ c[m] = Open(p[m].tag, p[m].attrs)
          /\ c[Len(c) + 1 - m] = Close(p[m].tag)
    /\ SubSeq(c, Len(p) + 1, Len(c) - Len(p)) = s

\* The path entries whose tags html_chunking_core.build_full_content leaves
\* in the content: all but the entry of the document object.
WithoutDocument(p) ==
    IF impl = "core" /\ p # <<>> /\ p[1] = [tag |-> ROOT_TAG_NAME, attrs |-> NoAttrs]
    THEN Tail(p) ELSE p

(***************************************************************************)
(* Properties.                                                             *)
(***************************************************************************)
\* C1: when no childless element of the input alone meets or exceeds the
\* budget, every chunk returned by get_html_chunks has a token count, taken
\* on the final string with its wrapper tags, of at most max_tokens.
C1_ChunksWithinBudget ==
    (/\ pc = "done"
     /\ impl = "core"
     /\ \A pos \in Positions(soup) : IsChildless(pos) => Length(pos) < max_tokens)
    => \A j \in 1..Len(merged_chunks) : count_tokens(merged_chunks[j]) <= max_tokens

\* C2: when split_html_by_dom returns, every text leaf and every childless
\* element of the document lies in the node captured by some chunk.
C2_Coverage ==
    pc = "split_done" =>
        \A pos \in Positions(soup) : (IsTextLeaf(pos) \/ IsChildless(pos)) => Covered(pos)

\* C3: when split_html_by_dom returns, an element without element children
\* whose serialization has a token count >= the budget is the captured node
\* of exactly one chunk.
C3_OversizedLeafEmitted ==
    pc = "split_done" =>
        \A pos \in Positions(soup) :
            (IsChildless(pos) /\ Length(pos) >= max_tokens) => Cardinality(EmittedFor(pos)) = 1

\* C4: merge_html_chunks drops no content: every text word occurs in its
\* output at least as often as in its input.
C4_MergeKeepsContent ==
    pc = "done" =>
        \A w \in Words : WordCountAll(merged_chunks, w) >= WordCountAll(html_chunks, w)

\* C5: for the empty markup split_html_by_dom returns no chunk and
\* get_html_chunks returns the empty list.
C5_EmptyInputEmptyOutput ==
    html_string = <<>> =>
        /\ pc = "split_done" => chunks = <<>>
        /\ pc = "done" => merged_chunks = <<>>

\* C6: a visited element whose count is below the budget is captured by
\* exactly one chunk and nothing below it is visited or captured; a visited
\* element whose count is >= the budget (equal included) is captured by no
\* chunk, and once the traversal is over each of its element children has
\* been visited.
C6_AcceptRejectRule ==
    \A pos \in visited :
        /\ Length(pos) < max_tokens =>
              /\ Cardinality(EmittedFor(pos)) = 1
              /\ \A q \in visited : IsPrefix(pos, q) => q = pos
              /\ \A j \in ChunkIndexes : IsPrefix(pos, emitted[j]) => emitted[j] = pos
        /\ Length(pos) >= max_tokens =>
              /\ EmittedFor(pos) = {}
              /\ pc \in {"split_done", "merge", "done"} =>
                    \A c \in ElementChildren(NodeAt(soup, pos)) : Append(pos, c) \in visited

\* C6 witness: a finished traversal that rejected an element with element
\* children whose count equals the budget, and accepted another element
\* that has element children.
C6_Witness ==
    /\ pc = "split_done"
    /\ \E pos \in visited :
          Length(pos) = max_tokens /\ ~IsChildless(pos) /\ EmittedFor(pos) = {}
    /\ \E pos \in visited :
          Length(pos) < max_tokens /\ ~IsChildless(pos) /\ EmittedFor(pos) # {}

\* C7: every chunk in the output of merge_html_chunks is within the budget
\* or equal to an input chunk that was over the budget already, and an
\* accumulator produced by an accepted merge is within the budget.
C7_MergeAcceptance ==
    /\ \A j \in 1..Len(merged_chunks) :
          \/ count_tokens(merged_chunks[j]) <= max_tokens
          \/ \E m \in 1..Len(html_chunks) :
                html_chunks[m] = merged_chunks[j] /\ count_tokens(html_chunks[m]) > max_tokens
    /\ from_merge => count_tokens(current_chunk) <= max_tokens

\* C7 witness: a finished merge whose output holds an over-budget input
\* chunk followed by the result of an accepted merge.
C7_Witness ==
    /\ pc = "done"
    /\ from_merge
    /\ Len(merged_chunks) >= 2
    /\ \E j \in 1..Len(merged_chunks) : count_tokens(merged_chunks[j]) > max_tokens

\* C8 as stated: the content of every chunk is the serialization of its
\* node wrapped by one opening tag per entry of its path, in order, and one
\* closing tag per entry, in reverse order.
C8_WrappedByEveryPathEntry ==
    \A j \in ChunkIndexes :
        Wrapped(chunks[j].content, chunks[j].path, str(NodeAt(soup, emitted[j])))

\* C8 amended: the same, for the entries of the path other than the entry
\* of the document object, whose tags the core build_full_content removes.
C8_WrappedExceptDocument ==
    \A j \in ChunkIndexes :
        Wrapped(chunks[j].content, WithoutDocument(chunks[j].path), str(NodeAt(soup, emitted[j])))

\* C8 witness: a chunk built by the core package whose path holds the
\* document object and at least two different tags, one of them with
\* attributes.
C8_Witness ==
    \E j \in ChunkIndexes :
        /\ impl = "core"
        /\ Len(chunks[j].path) >= 3
        /\ chunks[j].path[2].tag # chunks[j].path[3].tag
        /\ \E m \in 1..Len(chunks[j].path) : chunks[j].path[m].attrs # NoAttrs

\* C9: no content returned by split_html_by_dom holds an opening or closing
\* tag of the document object.
C9_NoDocumentMarker ==
    \A j \in ChunkIndexes :
        \A m \in 1..Len(chunks[j].content) : chunks[j].content[m].n # ROOT_TAG_NAME

\* C10: a completed split_html_by_dom returns what the first completed
\* invocation with the same markup and budget returned, whatever happened
\* in between.
C10_SameArgumentsSameResult ==
    (pc = "split_done" /\ first_result.set) => chunks = first_result.chunks

\* p comes before q in a depth-first walk that takes the children of a
\* node in document order (a node comes before its descendants).
PreOrderBefore(p, q) ==
    /\ p # q
    /\ \/ IsPrefix(p, q)
       \/ \E m \in 1..Len(p) :
             /\ m <= Len(q)
             /\ SubSeq(p, 1, m - 1) = SubSeq(q, 1, m - 1)
             /\ p[m] < q[m]

\* C11: the chunks are in document pre-order: of two chunks, the one whose
\* captured node comes first in the depth-first walk is first in the list.
C11_PreOrder ==
    \A j, m \in ChunkIndexes : j < m => PreOrderBefore(emitted[j], emitted[m])

\* C11 witness: a finished traversal with three chunks or more, captured at
\* different depths.
C11_Witness ==
    /\ pc = "split_done"
    /\ Len(chunks) >= 3
    /\ \E j, m \in ChunkIndexes : Len(emitted[j]) # Len(emitted[m])

\* C12: the fold of merge_html_chunks goes left to right from the first
\* chunk; a tentative merge within the budget becomes the accumulator, one
\* over the budget sends the accumulator as it was to the output and makes
\* the next chunk the accumulator; what is in the output stays as it is, and
\* the last accumulator is appended at the end.
C12_GreedyLeftFold ==
    [][/\ (pc = "call" /\ pc' = "merge") =>
             /\ idx' = 2
             /\ current_chunk' = html_chunks[1]
             /\ merged_chunks' = <<>>
       /\ (pc = "merge" /\ idx <= Len(html_chunks)) =>
             LET merged == merge_html_chunk(current_chunk, html_chunks[idx]) IN
             /\ pc' = "merge"
             /\ idx' = idx + 1
             /\ IF count_tokens(merged) <= max_tokens
                THEN current_chunk' = merged /\ merged_chunks' = merged_chunks
                ELSE /\ merged_chunks' = Append(merged_chunks, current_chunk)
                     /\ current_chunk' = html_chunks[idx]
       /\ (pc = "merge" /\ idx > Len(html_chunks)) =>
             /\ pc' = "done"
             /\ merged_chunks' = Append(merged_chunks, current_chunk)
       /\ IsPrefix(merged_chunks, merged_chunks')
       /\ html_chunks' = html_chunks
      ]_vars

\* C12 witness: a finished fold over three chunks with one merge accepted
\* and one rejected.
C12_Witness ==
    /\ pc = "done"
    /\ Len(html_chunks) = 3
    /\ Len(merged_chunks) = 2

\* C13: when the first input chunk alone is over the budget, it is the first
\* chunk of the output, unchanged.
C13_OversizedFirstAsIs ==
    (pc = "done" /\ html_chunks # <<>> /\ count_tokens(html_chunks[1]) > max_tokens)
    => merged_chunks[1] = html_chunks[1]

\* C14: merge_html_chunks on the empty list returns the empty list and does
\* not raise.
C14_EmptyListEmptyOutput ==
    (html_chunks = <<>> /\ pc # "call") => (pc = "done" /\ merged_chunks = <<>>)

\* C15: the output never has more chunks than the input; for an input of
\* n >= 1 chunks it has between 1 and n chunks, one more than the number of
\* tentative merges that were rejected (every rejection adds one chunk to
\* the output, an acceptance adds none, and the end of the fold adds one).
C15_NonExpansion ==
    /\ [](/\ Len(merged_chunks) <= Len(html_chunks)
          /\ (pc = "merge" => Len(merged_chunks) + 1 <= idx - 1)
          /\ (pc = "done" /\ html_chunks # <<>>) =>
                (Len(merged_chunks) >= 1 /\ Len(merged_chunks) <= Len(html_chunks)))
    /\ [][/\ (pc = "call" /\ pc' = "merge") => Len(merged_chunks') = 0
          /\ (pc = "merge" /\ idx <= Len(html_chunks)) =>
                Len(merged_chunks') =
                    Len(merged_chunks) +
                    (IF count_tokens(merge_html_chunk(current_chunk, html_chunks[idx]))
                            > max_tokens
                     THEN 1 ELSE 0)
          /\ (pc = "merge" /\ idx > Len(html_chunks)) =>
                Len(merged_chunks') = Len(merged_chunks) + 1
         ]_vars

\* C15 witness: a finished fold over three chunks that rejected both merges,
\* and so has as many chunks as its input.
C15_Witness ==
    /\ pc = "done"
    /\ Len(html_chunks) = 3
    /\ Len(merged_chunks) = 3

\* C16: merging a list of one chunk returns that chunk unchanged, whatever
\* the budget.
C16_SingleChunkUnchanged ==
    (pc = "done" /\ Len(html_chunks) = 1) => merged_chunks = html_chunks

\* C16 witness: a finished merge of one chunk that is over the budget.
C16_Witness ==
    /\ pc = "done"
    /\ Len(html_chunks) = 1
    /\ count_tokens(html_chunks[1]) > max_tokens
    /\ Len(merged_chunks) = 1

(***************************************************************************)
(* Vocabulary of the properties of the cleaner.                            *)
(***************************************************************************)
\* Does the processing of a stylesheet raise.
SheetRaises(css_text) ==
    apply_rules(CleanState(NoSoup, <<>>, <<>>), parseString(css_text), 1).raised

\* The removal rules as the interface states them, for a document with
\* these stylesheets.
HidingSelectors(texts) ==
    {r.selectorText :
        r \in {rule \in UNION {{parseString(texts[i])[j] : j \in 1..Len(parseString(texts[i]))} :
                                  i \in 1..Len(texts)} :
                  /\ rule.type = STYLE_RULE
                  /\ ~IsPseudoElement(rule.selectorText)
                  /\ Hides(rule)}}

RemovalRules(texts) ==
    {ByName(sel) : sel \in HidingSelectors(texts)}
    \cup { ByName("script"), ByName("style"),
           ByStyle({ <<"display:none">>, <<"display:", " ", "none">>,
                     <<"visibility:hidden">>, <<"visibility:", " ", "hidden">> }),
           ByAttr("aria-hidden", <<"true">>), ByAttr("tabindex", <<"-1">>) }

Unmatched(cs, rules) == SelectSeq(cs, LAMBDA n : \A r \in rules : ~Matches(r, n))

\* The same attributes, but for the values that can be truncated.
SameAttrs(a, b) ==
    /\ Len(a) = Len(b)
    /\ \A j \in 1..Len(a) :
          /\ a[j].k = b[j].k
          /\ a[j].k \notin attr_to_truncate => a[j] = b[j]

\* Node c of the cleaned document is node o of the original one, with
\* everything of it that no removal rule matches.
RECURSIVE Preserved(_, _, _)
Preserved(o, c, rules) ==
    IF o.kind # "tag" THEN c = o
    ELSE /\ c.kind = "tag"
         /\ c.name = o.name
         /\ SameAttrs(o.attrs, c.attrs)
         /\ LET vo == Unmatched(o.contents, rules)
                vc == Unmatched(c.contents, rules)
            IN  /\ Len(vo) = Len(vc)
                /\ \A j \in 1..Len(vo) : Preserved(vo[j], vc[j], rules)

\* The elements of a tree that a rule matches.
RECURSIVE Found(_, _)
Found(cs, rule) ==
    IF cs = <<>> THEN {}
    ELSE (IF Matches(rule, Head(cs)) THEN {Head(cs)} ELSE {})
         \cup (IF Head(cs).kind = "tag" THEN Found(Head(cs).contents, rule) ELSE {})
         \cup Found(Tail(cs), rule)

\* The attributes of the elements of a tree, in document order.
RECURSIVE AttrList(_)
AttrList(cs) ==
    IF cs = <<>> THEN <<>>
    ELSE (IF Head(cs).kind = "tag" THEN Head(cs).attrs \o AttrList(Head(cs).contents) ELSE <<>>)
         \o AttrList(Tail(cs))

RECURSIVE IsSubsequence(_, _)
IsSubsequence(a, b) ==
    IF a = <<>> THEN TRUE
    ELSE IF b = <<>> THEN FALSE
    ELSE IF Head(a) = Head(b) THEN IsSubsequence(Tail(a), Tail(b))
    ELSE IsSubsequence(a, Tail(b))

TagNames(markup) == {markup[j].n : j \in {i \in 1..Len(markup) : markup[i].t = "open"}}

\* C17: the second return value of clean_html is the texts of all the
\* elements it removed, by whatever rule, in the order of their removal,
\* joined by newlines.
C17_RemovedTextCaptured ==
    cleaned.set => cleaned.removed_content_text = JoinLines(decomposed)

\* C18: the cleaned markup has no script and no style element, and every
\* element that no removal rule matches and that is not inside a removed
\* element is still there, its content unchanged.
C18_NoScriptNoStyleRestKept ==
    cleaned.set =>
        /\ TagNames(cleaned.cleaned_html) \cap {"script", "style"} = {}
        /\ Preserved(BeautifulSoup(html_string), BeautifulSoup(cleaned.cleaned_html),
                     RemovalRules(css_texts))

\* C18 witness: a cleaned document that had a stylesheet, that lost at least
\* three elements and that kept a paragraph.
C18_Witness ==
    /\ cleaned.set
    /\ css_texts # <<>>
    /\ Len(decomposed) >= 3
    /\ Found(BeautifulSoup(cleaned.cleaned_html).contents, ByName("p")) # {}

\* C19: a stylesheet whose processing fails does not abort clean_html: the
\* call returns, and the later stylesheets and the later steps have been
\* applied.
C19_StylesheetFailureIsolated ==
    /\ pc # "raised"
    /\ (cleaned.set /\ \E i \in 1..Len(css_texts) : SheetRaises(css_texts[i])) =>
          /\ \A i \in 1..Len(css_texts) :
                (~SheetRaises(css_texts[i]) /\ \E j \in 1..(i - 1) : SheetRaises(css_texts[j]))
                => \A sel \in HidingSelectors(<<css_texts[i]>>) :
                      Found(soup.contents, ByName(sel)) = {}
          /\ \A rule \in RemovalRules(<<>>) : Found(soup.contents, rule) = {}
          /\ \A j \in 1..Len(AttrList(soup.contents)) :
                LET attr == AttrList(soup.contents)[j] IN
                (attr.k \in attr_to_truncate /\ attr_max_len > 0)
                => Len(attr.v) <= attr_max_len + 3

\* The value the interface gives an attribute.
Cut(attr, n) ==
    IF /\ attr.k \in {"href", "src", "d", "url", "data-url", "data-src", "data-src-hq"}
       /\ n > 0
       /\ Len(attr.v) > n
    THEN [attr EXCEPT !.v = SubSeq(attr.v, 1, n) \o <<".", ".", ".">>]
    ELSE attr

RECURSIVE CutAll(_, _)
CutAll(attrs, n) ==
    IF attrs = <<>> THEN <<>> ELSE <<Cut(Head(attrs), n)>> \o CutAll(Tail(attrs), n)

\* C20: the truncation step gives every attribute of the seven names whose
\* value is longer than a positive attr_max_len its first attr_max_len
\* characters and '...', and leaves every other value as it is (all of
\* them when attr_max_len is 0); no other step changes an attribute of an
\* element it keeps, and the markup returned is that of the document.
C20_AttributeTruncation ==
    [][/\ pc = "truncate" =>
             AttrList(soup'.contents) = CutAll(AttrList(soup.contents), attr_max_len)
       /\ pc \in {"css", "inline_style", "aria_hidden", "tabindex", "clean_return"} =>
             IsSubsequence(AttrList(soup'.contents), AttrList(soup.contents))
       /\ pc = "clean_return" => cleaned'.cleaned_html = str(soup)
      ]_vars

\* C20 witness: with attr_max_len = 1, after the truncation step, a link
\* whose href of two characters is cut, whose data-src of one character and
\* whose title of three are not.
C20_Witness ==
    /\ pc = "aria_hidden"
    /\ attr_max_len = 1
    /\ \E j \in 1..(Len(AttrList(soup.contents)) - 2) :
          /\ AttrList(soup.contents)[j] = StrVal("href", <<"a", ".", ".", ".">>)
          /\ AttrList(soup.contents)[j + 1] = StrVal("data-src", <<"c">>)
          /\ AttrList(soup.contents)[j + 2] = StrVal("title", <<"d", "e", "f">>)

(***************************************************************************)
(* Vocabulary of the properties of the pairwise merge.                     *)
(***************************************************************************)
\* The two trees of the merge the fold is about to try.
TreeA == BeautifulSoup(current_chunk)

TreeB == BeautifulSoup(html_chunks[idx])

Trying == pc = "merge" /\ idx <= Len(html_chunks)

\* The anchor of a side: the last node of its list, the root if it is empty.
Anchor(nodes) == IF nodes = <<>> THEN <<>> ELSE nodes[Len(nodes)]

IsChildOf(c, node) == \E m \in 1..Len(node.contents) : NodeEq(node.contents[m], c)

\* The children of b that are not children of a, in b's order.
NewChildren(a, b) == SelectSeq(b.contents, LAMBDA c : ~IsChildOf(c, a))

\* C23: after merge_html_chunk(A, B) the children of A's anchor are its
\* children of before, followed in B's order by every child of B's anchor
\* that was not a child of A's anchor, none of them skipped.
C23_AnchorGetsEveryNewChild ==
    Trying =>
        LET paths == get_common_root_path(TreeA, TreeB)
            a == NodeAt(TreeA, Anchor(paths[1]))
            b == NodeAt(TreeB, Anchor(paths[2]))
        IN  NodeAt(MergedSoup(TreeA, TreeB), Anchor(paths[1])).contents
                = a.contents \o NewChildren(a, b)

\* C24: get_common_root_path gives two lists of the same length, starting
\* at the roots; the two nodes of an index have the same name and the same
\* attributes, the next node of a list is the first element child of the
\* one before, and the lists end where the names or the attributes of the
\* next two nodes differ or a side has no element child.
C24_CommonRootPath ==
    Trying =>
        LET paths == get_common_root_path(TreeA, TreeB)
            n == Len(paths[1])
            First(node) == IF ElementChildren(node) = {} THEN 0
                           ELSE CHOOSE j \in ElementChildren(node) :
                                    \A e \in ElementChildren(node) : j <= e
            Same(m1, m2) == m1.name = m2.name /\ AttrsEq(m1.attrs, m2.attrs)
        IN  /\ Len(paths[2]) = n
            /\ n >= 1 => paths[1][1] = <<>> /\ paths[2][1] = <<>>
            /\ \A i \in 1..n : Same(NodeAt(TreeA, paths[1][i]), NodeAt(TreeB, paths[2][i]))
            /\ \A i \in 1..(n - 1) :
                  /\ paths[1][i + 1] = Append(paths[1][i], First(NodeAt(TreeA, paths[1][i])))
                  /\ paths[2][i + 1] = Append(paths[2][i], First(NodeAt(TreeB, paths[2][i])))
            /\ IF n = 0 THEN ~Same(TreeA, TreeB)
               ELSE LET l1 == NodeAt(TreeA, paths[1][n])
                        l2 == NodeAt(TreeB, paths[2][n])
                    IN  \/ First(l1) = 0
                        \/ First(l2) = 0
                        \/ ~Same(l1.contents[First(l1)], l2.contents[First(l2)])

\* C24 witness: a merge about to be tried whose lists have at least three
\* nodes, and whose last nodes both have an element child.
C24_Witness ==
    /\ Trying
    /\ LET paths == get_common_root_path(TreeA, TreeB) IN
       /\ Len(paths[1]) >= 3
       /\ ElementChildren(NodeAt(TreeA, Anchor(paths[1]))) # {}
       /\ ElementChildren(NodeAt(TreeB, Anchor(paths[2]))) # {}

\* One entry per proper ancestor of the node at a position, from the root
\* down to the parent.
RECURSIVE AncestorEntries(_)
AncestorEntries(pos) ==
    IF pos = <<>> THEN <<>>
    ELSE LET parent == SubSeq(pos, 1, Len(pos) - 1) IN
         Append(AncestorEntries(parent),
                [tag |-> NodeAt(soup, parent).name,
                 attrs |-> format_attrs(NodeAt(soup, parent).attrs)])

\* C25: while traverse_dom runs, at the visit of a node and at the return
\* of its call, the path holds one entry (tag, formatted attributes) per
\* ancestor of the node, from the root to the parent, and not the node;
\* the path of a chunk already emitted is not changed by what follows.
C25_PathStackDiscipline ==
    [][/\ pc = "split" => CurPath = AncestorEntries(Top.pos)
       /\ (pc = "split" /\ pc' \in {"split", "split_done"}) => IsPrefix(chunks, chunks')
      ]_vars

\* C21: between the calls of a chunker, get_last_removed_content gives the
\* removed text of the last call that cleaned, and None when no call has
\* cleaned yet.
C21_LastRemovedContent ==
    pc = "idle" => get_last_removed_content = last_cleaning

\* C22: every count that decides a split or a merge is the count of the
\* chunker's model: a node becomes a chunk exactly when its count by that
\* model is under the budget, and a merge is accepted exactly when its count
\* by that model is within the budget.
C22_ConfiguredModelCounts ==
    [][/\ (pc = "split" /\ Top.i = 0 /\ TopNode.name # NoName) =>
             (Len(chunks') > Len(chunks)
                <=> count_tokens_model(str(TopNode), model) < max_tokens)
       /\ Trying =>
             (merged_chunks' = merged_chunks
                <=> count_tokens_model(merge_html_chunk(current_chunk, html_chunks[idx]), model)
                       <= max_tokens)
      ]_vars

====
